---- MODULE Spec2Model ----
(***************************************************************************)
(* Model of halolib: the SSM-backed configuration cache (halolib/ssm.py),  *)
(* the texts it builds and parses, and the dispatch of a request by the    *)
(* base view (halolib/flask/viewsx.py).                                    *)
(*                                                                         *)
(* Spec is one invocation after the other on the cache and the store,      *)
(* SpecConcurrent two invocations interleaved on one accessor, SpecView    *)
(* the requests served by a view, SpecLoad load_config applied to every    *)
(* answer of the source.                                                   *)
(*                                                                         *)
(* Texts (parameter values, hosts, the deployment stage) are sequences of  *)
(* one-character strings, so that concatenation and JSON parsing are       *)
(* computed character by character.  Paths are sequences of segments: the  *)
(* value Python's Name.split("/") yields, so that '/a/b' is <<"","a","b">> *)
(* and appending '/' + key is Append.  The parameter source is outside the *)
(* program: each call to it may fail, and a successful                     *)
(* get_parameters_by_path may answer with any list of parameters.          *)
(***************************************************************************)
EXTENDS Integers, Sequences, FiniteSets, TLC

\* ---------------------------------------------------------------- bounds
MaxTicks == 3
MaxParams == 2
MaxHostLen == 1

\* ------------------------------------------------------- program constants
\* three minutes counted in seconds, not in milliseconds
DEFAULT_EXPIRY_seconds == 3 * 60

\* DEFAULT_EXPIRY = 3 * 60 * 1000
DEFAULT_EXPIRY == 3 * 60 * 1000

\* os.environ['HALO_STAGE'], ['HALO_TYPE'], ['HALO_FUNC_NAME'], ['HALO_APP_NAME']
env == <<"p", "r", "o", "d">>
type == "svc"
app_config_path == "func"
app_name == "app"

\* '/' + app_name + '/' + env + '/' + app_config_path, as its segments
full_config_path == <<"", app_name, "prod", app_config_path>>

\* '/' + app_name + '/' + type + '/service', as its segments
short_config_path == <<"", app_name, type, "service">>

\* Python's None, where a text is expected: no text is equal to it
None == <<"<None>">>

\* ------------------------------------------------------------------ texts
QUOTE == "\""
BSLASH == "\\"

Digits == {"0", "1", "2", "3", "5"}

HexDigits == Digits \cup {"a", "b", "c", "d", "e", "f"}

\* str(None) is the four characters None; str of a str is the str itself
Str(x) == IF x = None THEN <<"N", "o", "n", "e">> ELSE x

\* Python truthiness of a str-or-None argument
Truthy(x) == x # None /\ x # <<>>

\* str.lower() on one character (the letters the model's texts use)
LowerChar(c) ==
    CASE c = "K" -> "k"
      [] c = "J" -> "j"
      [] c = "U" -> "u"
      [] OTHER -> c

\* configparser.RawConfigParser.optionxform: optionstr.lower()
optionxform(s) == [i \in 1..Len(s) |-> LowerChar(s[i])]

\* ------------------------------------------------------------- json.loads
\* A parsed JSON value: t is "obj", "str", "num", "lit" or "null"; s is the text of
\* a scalar as str(value) gives it; m is the members of an object, in the
\* order of a Python dict (first insertion), as <<key, value>> pairs.
JVal(t, s, m) == [t |-> t, s |-> s, m |-> m]

JFail == [ok |-> FALSE, v |-> JVal("err", <<>>, <<>>), i |-> 0]

JOk(v, i) == [ok |-> TRUE, v |-> v, i |-> i]

\* does text s carry the characters lit from position i on
Match(s, i, lit) ==
    /\ i + Len(lit) - 1 <= Len(s)
    /\ \A j \in 1..Len(lit) : s[i + j - 1] = lit[j]

\* the character an escape \c stands for (control characters by name)
Unescape(c) ==
    CASE c = "b" -> "<BS>"
      [] c = "f" -> "<FF>"
      [] c = "n" -> "<LF>"
      [] c = "r" -> "<CR>"
      [] c = "t" -> "<TAB>"
      [] OTHER -> c

RECURSIVE ScanString(_, _, _)
\* json.decoder.py_scanstring after the opening quote: acc is the decoded
\* text so far; ends at the closing quote, fails at end of text or on an
\* invalid escape
ScanString(s, i, acc) ==
    IF i > Len(s) THEN JFail
    ELSE IF s[i] = QUOTE THEN JOk(JVal("str", acc, <<>>), i + 1)
    ELSE IF s[i] = BSLASH THEN
        IF i + 1 > Len(s) THEN JFail
        ELSE IF s[i + 1] \in {QUOTE, BSLASH, "/", "b", "f", "n", "r", "t"}
             THEN ScanString(s, i + 2, Append(acc, Unescape(s[i + 1])))
        ELSE IF /\ s[i + 1] = "u"
                /\ i + 5 <= Len(s)
                /\ \A j \in 2..5 : s[i + j] \in HexDigits
             THEN ScanString(s, i + 6, Append(acc, "<U>"))
        ELSE JFail
    ELSE ScanString(s, i + 1, Append(acc, s[i]))

RECURSIVE ScanDigits(_, _)
\* the position after the run of digits that starts at i
ScanDigits(s, i) ==
    IF i <= Len(s) /\ s[i] \in Digits THEN ScanDigits(s, i + 1) ELSE i

\* an integer literal: -? (0 | [1-9][0-9]*); its value as str(int) prints it
ScanNumber(s, i) ==
    LET j == IF i <= Len(s) /\ s[i] = "-" THEN i + 1 ELSE i
        k == IF j <= Len(s) /\ s[j] = "0" THEN j + 1 ELSE ScanDigits(s, j)
        body == SubSeq(s, j, k - 1)
    IN IF k = j THEN JFail
       ELSE JOk(JVal("num", IF j > i /\ body # <<"0">> THEN <<"-">> \o body ELSE body, <<>>), k)

\* dict[key] = value: a repeated key keeps its place and takes the new value
DictSet(m, k, v) ==
    IF \E n \in 1..Len(m) : m[n][1] = k
    THEN [n \in 1..Len(m) |-> IF m[n][1] = k THEN <<k, v>> ELSE m[n]]
    ELSE Append(m, <<k, v>>)

RECURSIVE ParseValue(_, _)
RECURSIVE ParseMembers(_, _, _)

\* json.scanner.py_make_scanner._scan_once at position i
ParseValue(s, i) ==
    IF i > Len(s) THEN JFail
    ELSE IF s[i] = QUOTE THEN ScanString(s, i + 1, <<>>)
    ELSE IF s[i] = "{" THEN
        IF i + 1 <= Len(s) /\ s[i + 1] = "}"
        THEN JOk(JVal("obj", <<>>, <<>>), i + 2)
        ELSE ParseMembers(s, i + 1, <<>>)
    ELSE IF Match(s, i, <<"n", "u", "l", "l">>) THEN JOk(JVal("null", <<>>, <<>>), i + 4)
    ELSE IF Match(s, i, <<"t", "r", "u", "e">>) THEN JOk(JVal("lit", <<"T", "r", "u", "e">>, <<>>), i + 4)
    ELSE IF Match(s, i, <<"f", "a", "l", "s", "e">>) THEN JOk(JVal("lit", <<"F", "a", "l", "s", "e">>, <<>>), i + 5)
    ELSE ScanNumber(s, i)

\* json.decoder.JSONObject: "key" : value, then "," or "}"
ParseMembers(s, i, m) ==
    IF i > Len(s) \/ s[i] # QUOTE THEN JFail
    ELSE LET k == ScanString(s, i + 1, <<>>)
         IN IF ~k.ok \/ k.i > Len(s) \/ s[k.i] # ":" THEN JFail
            ELSE LET v == ParseValue(s, k.i + 1)
                 IN IF ~v.ok \/ v.i > Len(s) THEN JFail
                    ELSE IF s[v.i] = "}" THEN JOk(JVal("obj", <<>>, DictSet(m, k.v.s, v.v)), v.i + 1)
                    ELSE IF s[v.i] = "," THEN ParseMembers(s, v.i + 1, DictSet(m, k.v.s, v.v))
                    ELSE JFail

\* json.loads(text): the whole text is one value (None is not a text:
\* TypeError); ok = FALSE stands for the exception
json_loads(text) ==
    IF text = None THEN JFail
    ELSE LET r == ParseValue(text, 1)
         IN IF r.ok /\ r.i = Len(text) + 1 THEN r ELSE JFail

\* ------------------------------------------------------------ configparser
EmptyOpts == [k \in {} |-> <<>>]

EmptySections == [n \in {} |-> EmptyOpts]

\* configparser.ConfigParser(): no sections, empty defaults
NewConfigParser == [kind |-> "ConfigParser", sections |-> EmptySections, defaults |-> EmptyOpts]

\* a plain dict handed to load_cache by a caller
Dict(sections) == [kind |-> "dict", sections |-> sections, defaults |-> EmptyOpts]

\* None handed to load_cache as config
ConfigNone == [kind |-> "None", sections |-> EmptySections, defaults |-> EmptyOpts]

DEFAULTSECT == "DEFAULT"

\* str(value) of a parsed JSON value, as read_dict applies it
PyStr(v) == IF v.t = "obj" THEN <<"<dict>">> ELSE v.s

\* an add_section that starts the section afresh when it is known
add_section_fresh(conf, section) ==
    IF section = DEFAULTSECT THEN conf
    ELSE [conf EXCEPT !.sections = (section :> EmptyOpts) @@ conf.sections]

\* RawConfigParser.add_section inside read_dict: ValueError for the default
\* section and DuplicateSectionError for a known one are both swallowed
add_section(conf, section) ==
    IF section = DEFAULTSECT \/ section \in DOMAIN conf.sections THEN conf
    ELSE [conf EXCEPT !.sections = (section :> EmptyOpts) @@ conf.sections]

\* RawConfigParser.set(section, key, value) for a str value
SetOption(conf, section, key, value) ==
    IF section = DEFAULTSECT
    THEN [conf EXCEPT !.defaults = (key :> value) @@ conf.defaults]
    ELSE [conf EXCEPT !.sections[section] = (key :> value) @@ conf.sections[section]]

RECURSIVE ReadKeys(_, _, _, _, _)
\* the loop of read_dict over the members of one section, from member n on:
\* added holds the option names this call has set.  ok = FALSE stands for
\* the exception that ends it (DuplicateOptionError, or TypeError for None)
ReadKeys(conf, section, m, n, added) ==
    IF n > Len(m) THEN [conf |-> conf, ok |-> TRUE]
    ELSE LET key == optionxform(m[n][1])
             v == m[n][2]
         IN IF key \in added \/ v.t = "null" THEN [conf |-> conf, ok |-> FALSE]
            ELSE ReadKeys(SetOption(conf, section, key, PyStr(v)), section, m, n + 1,
                          added \cup {key})

\* configuration.read_dict({section_name: config_values}): the section is
\* added before config_values.items() is evaluated, which raises
\* AttributeError when the parsed value is not an object
read_dict(conf, section, v) ==
    LET c1 == add_section(conf, section)
    IN IF v.t # "obj" THEN [conf |-> c1, ok |-> FALSE]
       ELSE ReadKeys(c1, section, v.m, 1, {})

\* key in cache.items
Contains(items, key) ==
    IF items.kind = "ConfigParser"
    THEN key = DEFAULTSECT \/ key \in DOMAIN items.sections
    ELSE key \in DOMAIN items.sections

NoVal == [name |-> "", opts |-> EmptyOpts]

\* cache.items[key]: the section (for a ConfigParser: its proxy, which
\* answers from the defaults where the section has no such option)
GetItem(items, key) ==
    [name |-> key,
     opts |-> IF items.kind = "ConfigParser"
              THEN IF key = DEFAULTSECT THEN items.defaults
                   ELSE items.sections[key] @@ items.defaults
              ELSE items.sections[key]]

\* ------------------------------------------------------------- load_config
RECURSIVE LoadParams(_, _, _)
\* the loop over param_details['Parameters'], from entry n on: the first
\* exception leaves the loop and the finally clause returns configuration
\* as it stands
LoadParams(params, n, configuration) ==
    IF n > Len(params) THEN configuration
    ELSE LET param_path_array == params[n].Name
             section_position == Len(param_path_array) - 1
             section_name == param_path_array[section_position + 1]
             config_values == json_loads(params[n].Value)
         IN IF ~config_values.ok THEN configuration
            ELSE LET r == read_dict(configuration, section_name, config_values.v)
                 IN IF r.ok THEN LoadParams(params, n + 1, r.conf) ELSE r.conf

\* load_config(region_name, ssm_parameter_path) once the call to the
\* source has come back: outcome is "ok" with the response, or the
\* exception the call raised
load_config(outcome, params) ==
    IF outcome = "ok" THEN LoadParams(params, 1, NewConfigParser)
    ELSE NewConfigParser

\* -------------------------------------------------------------- load_cache
NoCache == [expiration |-> 0, items |-> ConfigNone, built |-> 0, expiryMs |-> 0]

\* load_cache that takes the duration alone for the expiration
load_cache_no_clock(config, expiryMs, now) ==
    IF config = ConfigNone THEN [ok |-> FALSE, cache |-> NoCache]
    ELSE IF expiryMs <= 0 THEN [ok |-> FALSE, cache |-> NoCache]
    ELSE [ok |-> TRUE,
          cache |-> [expiration |-> expiryMs, items |-> config,
                     built |-> now, expiryMs |-> expiryMs]]

\* load_cache that lets a zero duration through
load_cache_zero_ok(config, expiryMs, now) ==
    IF config = ConfigNone THEN [ok |-> FALSE, cache |-> NoCache]
    ELSE IF expiryMs < 0 THEN [ok |-> FALSE, cache |-> NoCache]
    ELSE [ok |-> TRUE,
          cache |-> [expiration |-> now + expiryMs, items |-> config,
                     built |-> now, expiryMs |-> expiryMs]]

\* load_cache that forgets to add the duration
load_cache_no_expiry(config, expiryMs, now) ==
    IF config = ConfigNone THEN [ok |-> FALSE, cache |-> NoCache]
    ELSE IF expiryMs <= 0 THEN [ok |-> FALSE, cache |-> NoCache]
    ELSE [ok |-> TRUE,
          cache |-> [expiration |-> now, items |-> config,
                     built |-> now, expiryMs |-> expiryMs]]

\* load_cache(config, expiryMs) at clock value now; built and expiryMs
\* record the clock value and the duration of the build.  ok = FALSE
\* stands for HaloError
load_cache(config, expiryMs, now) ==
    IF config = ConfigNone THEN [ok |-> FALSE, cache |-> NoCache]
    ELSE IF expiryMs <= 0 THEN [ok |-> FALSE, cache |-> NoCache]
    ELSE [ok |-> TRUE,
          cache |-> [expiration |-> now + expiryMs, items |-> config,
                     built |-> now, expiryMs |-> expiryMs]]

\* ------------------------------------------------------------ input sets
Threads == {1, 2}

Regions == {"us-east-1"}

\* keys asked of get_param and written by set_param_config
Keys == {"a", DEFAULTSECT}

WriteKeys == {"a"}

\* parameter values: two objects, a truncated object, a number
ObjK1 == <<"{", QUOTE, "k", QUOTE, ":", QUOTE, "1", QUOTE, "}">>
ObjK2J3 ==
    <<"{", QUOTE, "K", QUOTE, ":", "2", ",", QUOTE, "j", QUOTE, ":", "3", "}">>
BadJson == <<"{", QUOTE, "k", QUOTE>>
NonObj == <<"5">>

\* values the source may answer with
ParamValues == {ObjK1, ObjK2J3, BadJson}

\* values handed to set_config and set_param_config
WriteValues == {ObjK1, BadJson, NonObj}

\* names under the per-function path
ParamNames == {Append(full_config_path, "a"), Append(full_config_path, "b")}

Params == [Name : ParamNames, Value : ParamValues]

RECURSIVE SeqsUpTo(_, _)
\* the sequences over S of length at most n
SeqsUpTo(S, n) ==
    IF n = 0 THEN {<<>>}
    ELSE LET shorter == SeqsUpTo(S, n - 1)
         IN shorter \cup {Append(q, x) : q \in shorter, x \in S}

\* the answers the source may give to get_parameters_by_path: its content
\* is whatever its other users have made of it, in the order it chooses
Responses == SeqsUpTo(Params, MaxParams)

HostChars == {"a", QUOTE, BSLASH}

\* hosts handed to set_app_param_config; None and '' are the falsy ones
Hosts == SeqsUpTo(HostChars, MaxHostLen) \cup {None}

\* expiry durations handed to load_cache
Expiries == {0 - 1, 0, 100, DEFAULT_EXPIRY}

\* configs handed to load_cache by a caller
CallerConfigs ==
    {ConfigNone, Dict(EmptySections),
     Dict("a" :> ((<<"k">>) :> <<"1">>))}

\* how far the clock moves in one step
TickSteps == {100, DEFAULT_EXPIRY}

\* how a call to the source ends: boto's ClientError, any other exception
Outcomes == {"ok", "ClientError", "Exception"}

\* ------------------------------------------------------------------ state
VARIABLES
    clock,      \* current_milli_time()
    ticks,      \* number of clock steps taken
    client,     \* the module global client: 0 for None, else the handle
    nclient,    \* boto3.client calls made
    acc,        \* the MyConfig accessor: cache, path, region_name
    settings,   \* the settings object of viewsx.py: HALO_HOST, FRONT_WEB
    reg,        \* the set_app_param_config calls do_process has made
    pc,         \* per invocation: where it stands
    fr          \* per invocation: its arguments, locals and result

vars == <<clock, ticks, client, nclient, acc, settings, reg, pc, fr>>

NoClient == 0

\* do_process has not called set_app_param_config yet: calls counts the
\* calls of viewsx.py line 80, failed those of them that returned False
NoReg == [calls |-> 0, failed |-> 0]

NoAcc == [exists |-> FALSE, cache |-> NoCache, path |-> <<>>, region_name |-> ""]

\* MyConfig.__init__(cache, path, region_name)
MyConfig(cache, path, region_name) ==
    [exists |-> TRUE, cache |-> cache, path |-> path, region_name |-> region_name]

NoRet == [kind |-> "none", exc |-> "", val |-> NoVal, ok |-> FALSE]

Return(val) == [kind |-> "return", exc |-> "", val |-> val, ok |-> FALSE]

ReturnBool(b) == [kind |-> "return", exc |-> "", val |-> NoVal, ok |-> b]

Raise(exc) == [kind |-> "raise", exc |-> exc, val |-> NoVal, ok |-> FALSE]

\* ------------------------------------------------- responses, exceptions
\* the body of a response: a text, or the dict {"error": error_message}
TextBody(text) == [type |-> "str", text |-> text, error |-> <<>>]

ErrorBody(error_message) == [type |-> "dict", text |-> <<>>, error |-> error_message]

\* flask_api.status.HTTP_400_BAD_REQUEST
HTTP_400_BAD_REQUEST == 400

\* the status of a flask Response built without one
HTTP_200_OK == 200

\* flask.Response(body, status=status)
HttpResponse(body, status) ==
    [kind |-> "response", status |-> status, body |-> body, location |-> <<>>]

\* flask.redirect(location): the status of a redirect is 302
redirect(location) ==
    [kind |-> "redirect", status |-> 302, body |-> TextBody(<<>>), location |-> location]

NoResponse == [kind |-> "none", status |-> 0, body |-> TextBody(<<>>), location |-> <<>>]

\* request.headers as far as do_process reads them: the HTTP_HOST header,
\* None when the request has none
NoRequest == [HTTP_HOST |-> None]

\* an exception raised: its class, and the text str(e) gives
Exc(cls, str) == [cls |-> cls, str |-> str]

NoExc == Exc("", <<>>)

\* op, the arguments and locals of the code, and what the invocation has
\* done so far: for a request, entry is the verb method called, typer the
\* verb handed to do_process, ndo the do_process calls made, hooks the hooks
\* process called, result what process returned, exc what it raised,
\* response what do_process returned.  For the calls to the store: pre is
\* the accessor's cache when the call began, seen the cache line 101 found
\* expired, nget and nput the calls made to the source, failed whether the
\* last get_parameters_by_path call raised or answered with a value that is
\* not JSON, resp the Parameters of the answer where the specification
\* fixes them before the call (SpecLoad), putName / putValue /
\* putType / putOverwrite the arguments of put_parameter and putOk whether
\* it completed without error
Frame0 ==
    [op |-> "", key |-> "", now |-> 0, region |-> "", path |-> <<>>,
     value |-> <<>>, host |-> <<>>, expiryMs |-> 0, config |-> ConfigNone,
     handle |-> 0, pre |-> NoCache, seen |-> NoCache, nget |-> 0, nput |-> 0,
     failed |-> FALSE, resp |-> <<>>,
     putName |-> <<>>, putValue |-> <<>>, putType |-> "", putOverwrite |-> FALSE,
     putOk |-> FALSE, ret |-> NoRet,
     entry |-> "", typer |-> "", request |-> NoRequest, ndo |-> 0, hooks |-> {},
     result |-> NoResponse, exc |-> NoExc, error_message |-> None,
     response |-> NoResponse]

Init ==
    /\ clock = 0
    /\ ticks = 0
    /\ client = NoClient
    /\ nclient = 0
    /\ acc = NoAcc
    /\ settings = [HALO_HOST |-> None, FRONT_WEB |-> FALSE]
    /\ reg = NoReg
    /\ pc = [t \in Threads |-> "idle"]
    /\ fr = [t \in Threads |-> Frame0]

\* ------------------------------------------------------------ environment
\* time passes
Tick(d) ==
    /\ ticks < MaxTicks
    /\ clock' = clock + d
    /\ ticks' = ticks + 1
    /\ UNCHANGED <<reg, settings, client, nclient, acc, pc, fr>>

\* ------------------------------------------------------------- get_client
\* line 40: if not client
get_client_check(t) ==
    /\ pc[t] = "gc_check"
    /\ pc' = [pc EXCEPT ![t] = IF client = NoClient THEN "gc_create" ELSE "gc_return"]
    /\ UNCHANGED <<reg, settings, clock, ticks, client, nclient, acc, fr>>

\* line 41: client = boto3.client('ssm', region_name=region_name)
get_client_create(t) ==
    /\ pc[t] = "gc_create"
    /\ nclient' = nclient + 1
    /\ client' = nclient + 1
    /\ pc' = [pc EXCEPT ![t] = "gc_return"]
    /\ UNCHANGED <<reg, settings, clock, ticks, acc, fr>>

\* line 42: return client, to load_config or to set_config
get_client_return(t) ==
    /\ pc[t] = "gc_return"
    /\ fr' = [fr EXCEPT ![t].handle = client]
    /\ pc' = [pc EXCEPT ![t] = IF fr[t].op \in {"get_param", "get_config", "get_app_config"}
                                THEN "lc_fetch" ELSE "sc_put"]
    /\ UNCHANGED <<reg, settings, clock, ticks, client, nclient, acc>>

\* --------------------------------------------------- load_config, get_cache
\* every value of the answer parses as JSON
AllJson(resp) == \A n \in 1..Len(resp) : json_loads(resp[n].Value).ok

\* what load_config makes of one call to the source: the configuration it
\* returns, and whether the call raised or a value of its answer is not JSON
FetchResult(outcome, resp) ==
    [failed |-> (outcome # "ok" \/ ~AllJson(resp)),
     config |-> load_config(outcome, resp)]

\* over every way the call may end and every answer it may give
FetchResults == {FetchResult(o, l) : o \in Outcomes, l \in Responses}

\* load_config lines 119-147 after get_client: the call to the source, the
\* loop over its answer, the except clauses and the finally: return
load_config_fetch(t, r) ==
    /\ pc[t] = "lc_fetch"
    /\ fr' = [fr EXCEPT ![t].nget = @ + 1,
                        ![t].failed = r.failed,
                        ![t].config = r.config]
    /\ pc' = [pc EXCEPT ![t] = "gcache"]
    /\ UNCHANGED <<reg, settings, clock, ticks, client, nclient, acc>>

\* a refresh that adds the sections fetched to the sections already held
get_cache_build_merge(t) ==
    /\ pc[t] = "gcache"
    /\ LET r == load_cache(fr[t].config, DEFAULT_EXPIRY, clock)
           merged == [r.cache.items EXCEPT
                         !.sections = r.cache.items.sections @@ acc.cache.items.sections]
       IN IF ~r.ok
          THEN /\ fr' = [fr EXCEPT ![t].ret = Raise("HaloError")]
               /\ pc' = [pc EXCEPT ![t] = "done"]
               /\ UNCHANGED <<acc>>
          ELSE IF fr[t].op = "get_param"
               THEN /\ acc' = [acc EXCEPT !.cache = [r.cache EXCEPT !.items = merged]]
                    /\ pc' = [pc EXCEPT ![t] = "gp_in2"]
                    /\ fr' = [fr EXCEPT ![t].config = ConfigNone, ![t].failed = FALSE]
               ELSE /\ acc' = MyConfig(r.cache, fr[t].path, fr[t].region)
                    /\ pc' = [pc EXCEPT ![t] = "done"]
                    /\ fr' = [fr EXCEPT ![t].config = ConfigNone, ![t].failed = FALSE,
                                        ![t].ret = Return(NoVal)]
    /\ UNCHANGED <<reg, settings, clock, ticks, client, nclient>>

\* get_cache line 216, cache = load_cache(config), and what the caller does
\* with the cache returned: get_param assigns it to self.cache (line 107),
\* get_config / get_app_config build the MyConfig (lines 229, 243).  The
\* locals of load_config and get_cache are gone when get_cache returns
get_cache_build(t) ==
    /\ pc[t] = "gcache"
    /\ LET r == load_cache(fr[t].config, DEFAULT_EXPIRY, clock)
       IN IF ~r.ok
          THEN /\ fr' = [fr EXCEPT ![t].ret = Raise("HaloError")]
               /\ pc' = [pc EXCEPT ![t] = "done"]
               /\ UNCHANGED <<acc>>
          ELSE IF fr[t].op = "get_param"
               THEN /\ acc' = [acc EXCEPT !.cache = r.cache]
                    /\ pc' = [pc EXCEPT ![t] = "gp_in2"]
                    /\ fr' = [fr EXCEPT ![t].config = ConfigNone, ![t].failed = FALSE]
               ELSE /\ acc' = MyConfig(r.cache, fr[t].path, fr[t].region)
                    /\ pc' = [pc EXCEPT ![t] = "done"]
                    /\ fr' = [fr EXCEPT ![t].config = ConfigNone, ![t].failed = FALSE,
                                        ![t].ret = Return(NoVal)]
    /\ UNCHANGED <<reg, settings, clock, ticks, client, nclient>>

\* get_config(region_name): the accessor over the per-function path
get_config(t, region_name) ==
    /\ pc[t] = "idle"
    /\ ~acc.exists
    /\ fr' = [fr EXCEPT ![t] = [Frame0 EXCEPT !.op = "get_config", !.region = region_name,
                                              !.path = full_config_path]]
    /\ pc' = [pc EXCEPT ![t] = "gc_check"]
    /\ UNCHANGED <<reg, settings, clock, ticks, client, nclient, acc>>

\* get_app_config(region_name): the accessor over the shared path
get_app_config(t, region_name) ==
    /\ pc[t] = "idle"
    /\ ~acc.exists
    /\ fr' = [fr EXCEPT ![t] = [Frame0 EXCEPT !.op = "get_app_config", !.region = region_name,
                                              !.path = short_config_path]]
    /\ pc' = [pc EXCEPT ![t] = "gc_check"]
    /\ UNCHANGED <<reg, settings, clock, ticks, client, nclient, acc>>

\* a caller builds the accessor itself:
\* MyConfig(load_cache(config, expiryMs), path, region_name)
load_cache_call(t, config, expiryMs, region_name) ==
    /\ pc[t] = "idle"
    /\ ~acc.exists
    /\ LET r == load_cache(config, expiryMs, clock)
       IN /\ fr' = [fr EXCEPT ![t] = [Frame0 EXCEPT !.op = "load_cache", !.config = config,
                                                    !.expiryMs = expiryMs,
                                                    !.region = region_name,
                                                    !.path = full_config_path,
                                                    !.ret = IF r.ok THEN Return(NoVal)
                                                            ELSE Raise("HaloError")]]
          /\ acc' = IF r.ok THEN MyConfig(r.cache, full_config_path, region_name) ELSE acc
    /\ pc' = [pc EXCEPT ![t] = "done"]
    /\ UNCHANGED <<reg, settings, clock, ticks, client, nclient>>

\* ------------------------------------------------------- MyConfig.get_param
\* line 100: now = current_milli_time()
get_param(t, key) ==
    /\ pc[t] = "idle"
    /\ acc.exists
    /\ fr' = [fr EXCEPT ![t] = [Frame0 EXCEPT !.op = "get_param", !.key = key, !.now = clock,
                                              !.pre = acc.cache]]
    /\ pc' = [pc EXCEPT ![t] = "gp_check"]
    /\ UNCHANGED <<reg, settings, clock, ticks, client, nclient, acc>>

\* the expiry test with the equality left out
NotExpired_strict(now, cache) == now < cache.expiration

\* the test of line 101: now <= self.cache.expiration
NotExpired(now, cache) == now <= cache.expiration

\* a get_param that makes no call of its own while another invocation is
\* refreshing, and goes on with the cache it finds
get_param_check_join(t) ==
    /\ pc[t] = "gp_check"
    /\ IF NotExpired(fr[t].now, acc.cache)
       THEN /\ pc' = [pc EXCEPT ![t] = "gp_in"]
            /\ UNCHANGED fr
       ELSE /\ pc' = [pc EXCEPT ![t] =
                         IF \E u \in Threads \ {t} :
                               /\ fr[u].op = "get_param"
                               /\ pc[u] \in {"gc_check", "gc_create", "gc_return",
                                              "lc_fetch", "gcache"}
                         THEN "gp_in2" ELSE "gc_check"]
            /\ fr' = [fr EXCEPT ![t].region = acc.region_name, ![t].path = acc.path,
                                ![t].seen = acc.cache]
    /\ UNCHANGED <<reg, settings, clock, ticks, client, nclient, acc>>

\* line 101: if now <= self.cache.expiration; in the else branch line 107
\* evaluates self.region_name and self.path and enters get_cache
get_param_check(t) ==
    /\ pc[t] = "gp_check"
    /\ IF NotExpired(fr[t].now, acc.cache)
       THEN /\ pc' = [pc EXCEPT ![t] = "gp_in"]
            /\ UNCHANGED fr
       ELSE /\ pc' = [pc EXCEPT ![t] = "gc_check"]
            /\ fr' = [fr EXCEPT ![t].region = acc.region_name, ![t].path = acc.path,
                                ![t].seen = acc.cache]
    /\ UNCHANGED <<reg, settings, clock, ticks, client, nclient, acc>>

\* a get_param that answers a missing key of a valid snapshot by a refresh
get_param_in_refresh(t) ==
    /\ pc[t] = "gp_in"
    /\ IF Contains(acc.cache.items, fr[t].key)
       THEN /\ pc' = [pc EXCEPT ![t] = "gp_item"]
            /\ UNCHANGED fr
       ELSE /\ pc' = [pc EXCEPT ![t] = "gc_check"]
            /\ fr' = [fr EXCEPT ![t].region = acc.region_name, ![t].path = acc.path]
    /\ UNCHANGED <<reg, settings, clock, ticks, client, nclient, acc>>

\* line 102: if key in self.cache.items, else line 105 raises CacheKeyError
get_param_in(t) ==
    /\ pc[t] = "gp_in"
    /\ IF Contains(acc.cache.items, fr[t].key)
       THEN /\ pc' = [pc EXCEPT ![t] = "gp_item"]
            /\ UNCHANGED fr
       ELSE /\ pc' = [pc EXCEPT ![t] = "done"]
            /\ fr' = [fr EXCEPT ![t].ret = Raise("CacheKeyError")]
    /\ UNCHANGED <<reg, settings, clock, ticks, client, nclient, acc>>

\* lines 103 and 109: return self.cache.items[key] (KeyError when the cache
\* read here no longer has the key)
get_param_item(t) ==
    /\ pc[t] \in {"gp_item", "gp_item2"}
    /\ fr' = [fr EXCEPT ![t].ret = IF Contains(acc.cache.items, fr[t].key)
                                   THEN Return(GetItem(acc.cache.items, fr[t].key))
                                   ELSE Raise("KeyError")]
    /\ pc' = [pc EXCEPT ![t] = "done"]
    /\ UNCHANGED <<reg, settings, clock, ticks, client, nclient, acc>>

\* a get_param that raises the error of the valid branch after a refresh
get_param_in2_keyerror(t) ==
    /\ pc[t] = "gp_in2"
    /\ IF Contains(acc.cache.items, fr[t].key)
       THEN /\ pc' = [pc EXCEPT ![t] = "gp_item2"]
            /\ UNCHANGED fr
       ELSE /\ pc' = [pc EXCEPT ![t] = "done"]
            /\ fr' = [fr EXCEPT ![t].ret = Raise("CacheKeyError")]
    /\ UNCHANGED <<reg, settings, clock, ticks, client, nclient, acc>>

\* a get_param that serves the replaced snapshot's value when the refreshed
\* snapshot has not the key
get_param_in2_fallback(t) ==
    /\ pc[t] = "gp_in2"
    /\ IF Contains(acc.cache.items, fr[t].key)
       THEN /\ pc' = [pc EXCEPT ![t] = "gp_item2"]
            /\ UNCHANGED fr
       ELSE /\ pc' = [pc EXCEPT ![t] = "done"]
            /\ fr' = [fr EXCEPT ![t].ret = IF Contains(fr[t].pre.items, fr[t].key)
                                           THEN Return(GetItem(fr[t].pre.items, fr[t].key))
                                           ELSE Raise("CacheExpireError")]
    /\ UNCHANGED <<reg, settings, clock, ticks, client, nclient, acc>>

\* line 108: if key in self.cache.items, else line 110 raises CacheExpireError
get_param_in2(t) ==
    /\ pc[t] = "gp_in2"
    /\ IF Contains(acc.cache.items, fr[t].key)
       THEN /\ pc' = [pc EXCEPT ![t] = "gp_item2"]
            /\ UNCHANGED fr
       ELSE /\ pc' = [pc EXCEPT ![t] = "done"]
            /\ fr' = [fr EXCEPT ![t].ret = Raise("CacheExpireError")]
    /\ UNCHANGED <<reg, settings, clock, ticks, client, nclient, acc>>

\* -------------------------------------------------------------- set_config
\* set_config(region_name, ssm_parameter_path, value) is entered
set_config_enter(t, op, region_name, ssm_parameter_path, value, host) ==
    /\ pc[t] = "idle"
    /\ fr' = [fr EXCEPT ![t] = [Frame0 EXCEPT !.op = op, !.region = region_name,
                                              !.path = ssm_parameter_path,
                                              !.value = value, !.host = host]]
    /\ pc' = [pc EXCEPT ![t] = "sc_loads"]
    /\ UNCHANGED <<reg, settings, clock, ticks, client, nclient, acc>>

\* set_config called by a user of the module
set_config(t, region_name, ssm_parameter_path, value) ==
    set_config_enter(t, "set_config", region_name, ssm_parameter_path, value, <<>>)

\* lines 158-159
set_param_config(t, region_name, key, value) ==
    LET ssm_parameter_path == Append(full_config_path, key)
    IN set_config_enter(t, "set_param_config", region_name, ssm_parameter_path, value, <<>>)

\* '{"url":"' + str(url) + '"}'
UrlValue(url) ==
    <<"{", QUOTE, "u", "r", "l", QUOTE, ":", QUOTE>> \o Str(url) \o <<QUOTE, "}">>

\* "https://" + host + "/" + env
HttpsUrl(host) ==
    <<"h", "t", "t", "p", "s", ":", "/", "/">> \o host \o <<"/">> \o env

\* line 169: ssm_parameter_path = short_config_path + '/' + app_config_path
AppParamPath == Append(short_config_path, app_config_path)

\* lines 170-174: the url of the host and the value written for it
AppParamValue(host) ==
    LET url == IF Truthy(host) THEN HttpsUrl(host) ELSE host
    IN UrlValue(url)

\* lines 169-176
set_app_param_config(t, region_name, host) ==
    set_config_enter(t, "set_app_param_config", region_name, AppParamPath,
                     AppParamValue(host), host)

\* where set_config returns to: into do_process when do_process called
\* set_app_param_config (viewsx.py line 80), else to the caller
AfterSetConfig(t) == IF fr[t].op = "do_process" THEN "dp_registered" ELSE "done"

\* a set_config that does not validate the value
set_config_loads_skip(t) ==
    /\ pc[t] = "sc_loads"
    /\ pc' = [pc EXCEPT ![t] = "gc_check"]
    /\ UNCHANGED <<reg, settings, clock, ticks, client, nclient, acc, fr>>

\* line 188: json.loads(value); JSONDecodeError is caught, line 204 returns
\* False
set_config_loads(t) ==
    /\ pc[t] = "sc_loads"
    /\ IF json_loads(fr[t].value).ok
       THEN /\ pc' = [pc EXCEPT ![t] = "gc_check"]
            /\ UNCHANGED fr
       ELSE /\ pc' = [pc EXCEPT ![t] = AfterSetConfig(t)]
            /\ fr' = [fr EXCEPT ![t].ret = IF fr[t].op = "do_process" THEN @
                                           ELSE ReturnBool(FALSE)]
    /\ UNCHANGED <<reg, settings, clock, ticks, client, nclient, acc>>

\* lines 189-204: the put_parameter call; it returns and line 197 returns
\* True, or it raises and line 204 returns False
set_config_put(t, outcome) ==
    /\ pc[t] = "sc_put"
    /\ fr' = [fr EXCEPT ![t].nput = @ + 1,
                        ![t].putName = fr[t].path,
                        ![t].putValue = fr[t].value,
                        ![t].putType = "String",
                        ![t].putOverwrite = TRUE,
                        ![t].putOk = (outcome = "ok"),
                        ![t].ret = IF fr[t].op = "do_process" THEN @
                                   ELSE ReturnBool(outcome = "ok")]
    /\ pc' = [pc EXCEPT ![t] = AfterSetConfig(t)]
    /\ UNCHANGED <<reg, settings, clock, ticks, client, nclient, acc>>

\* the caller has the result; the invocation is over
Finish(t) ==
    /\ pc[t] = "done"
    /\ pc' = [pc EXCEPT ![t] = "idle"]
    /\ fr' = [fr EXCEPT ![t] = Frame0]
    /\ UNCHANGED <<reg, settings, clock, ticks, client, nclient, acc>>

\* ------------------------------------------------- AbsBaseLinkX (viewsx.py)
\* the members of HTTPChoice that process tests for
HTTPChoice == {"get", "post", "put", "patch", "delete"}

\* values of typer a caller of do_process may hand over
Typers == HTTPChoice \cup {"head"}

\* settings.AWS_REGION
AWS_REGION == "us-east-1"

\* self.get_view_name()
get_view_name == "view"

\* the HTTP_HOST header of a request: None when it has none
RequestHosts == {None, <<>>, <<"a">>, <<QUOTE>>}

Requests == [HTTP_HOST : RequestHosts]

\* one decimal digit of str(n)
DigitChar(d) ==
    CASE d = 0 -> "0" [] d = 1 -> "1" [] d = 2 -> "2" [] d = 3 -> "3" [] d = 4 -> "4"
      [] d = 5 -> "5" [] d = 6 -> "6" [] d = 7 -> "7" [] d = 8 -> "8" [] OTHER -> "9"

RECURSIVE StrInt(_)
\* str(n) of a natural number
StrInt(n) == IF n < 10 THEN <<DigitChar(n)>> ELSE StrInt(n \div 10) \o <<DigitChar(n % 10)>>

\* the classes above a class in Python's hierarchy, the class included
Bases(cls) ==
    CASE cls \in {"KeyboardInterrupt", "SystemExit", "GeneratorExit"}
            -> {cls, "BaseException"}
      [] cls = "JSONDecodeError"
            -> {cls, "ValueError", "Exception", "BaseException"}
      [] OTHER -> {cls, "Exception", "BaseException"}

\* what a hook may raise: the classes the except clauses name, subclasses of
\* ValueError and of Exception, and the exits that derive from BaseException
Raised ==
    {"MaxTryException", "HaloError", "HaloException", "IOError", "ValueError",
     "ImportError", "EOFError", "KeyboardInterrupt", "AttributeError",
     "JSONDecodeError", "KeyError", "SystemExit", "GeneratorExit"}

\* str(e) of what is raised
Messages == {<<>>, <<"boom">>}

\* the except clauses without the last one
ExceptClauses_named ==
    <<"MaxTryException", "HaloError", "HaloException", "IOError", "ValueError",
      "ImportError", "EOFError", "KeyboardInterrupt", "AttributeError">>

\* the except clauses of do_process, lines 94-143, in their order
ExceptClauses ==
    <<"MaxTryException", "HaloError", "HaloException", "IOError", "ValueError",
      "ImportError", "EOFError", "KeyboardInterrupt", "AttributeError", "Exception">>

\* is an exception of class cls handled by one of the except clauses
Caught(cls) == \E n \in 1..Len(ExceptClauses) : ExceptClauses[n] \in Bases(cls)

\* process with the tests for put and patch answering each other's hook
Route_crossed(typer) ==
    IF typer = "get" THEN "process_get"
    ELSE IF typer = "post" THEN "process_post"
    ELSE IF typer = "put" THEN "process_patch"
    ELSE IF typer = "patch" THEN "process_put"
    ELSE IF typer = "delete" THEN "process_delete"
    ELSE ""

\* process lines 240-253: the hook typer is routed to, "" when none
Route(typer) ==
    IF typer = "get" THEN "process_get"
    ELSE IF typer = "post" THEN "process_post"
    ELSE IF typer = "put" THEN "process_put"
    ELSE IF typer = "patch" THEN "process_patch"
    ELSE IF typer = "delete" THEN "process_delete"
    ELSE ""

\* lines 257-270: what the hooks of AbsBaseLinkX return
HookResponse(hook) ==
    LET verb == CASE hook = "process_get" -> "get"
                  [] hook = "process_post" -> "post"
                  [] hook = "process_put" -> "put"
                  [] hook = "process_patch" -> "patch"
                  [] OTHER -> "delete"
    IN HttpResponse(TextBody(<<"this is process ", verb, " on ", get_view_name>>), HTTP_200_OK)

\* what the hook of a subclass returns
SubclassResponse == HttpResponse(TextBody(<<"created">>), 201)

\* how a hook may end: the hook of AbsBaseLinkX or the hook of a subclass
\* returns its response, or the hook raises
HookOutcomes ==
    {[by |-> b, exc |-> NoExc] : b \in {"AbsBaseLinkX", "subclass"}}
        \cup {[by |-> "subclass", exc |-> Exc(c, m)] : c \in Raised, m \in Messages}

\* do_process(request, typer, vars, format) is entered; entry is the verb
\* method that calls it, "" for another caller
do_process(t, request, typer, entry) ==
    /\ pc[t] = "idle"
    /\ fr' = [fr EXCEPT ![t] = [Frame0 EXCEPT !.op = "do_process", !.entry = entry,
                                              !.typer = typer, !.request = request,
                                              !.ndo = 1]]
    /\ pc' = [pc EXCEPT ![t] = "dp_host"]
    /\ UNCHANGED <<reg, settings, clock, ticks, client, nclient, acc>>

\* lines 215-233: the five verb methods
get(t, request) == do_process(t, request, "get", "get")

post(t, request) == do_process(t, request, "post", "post")

put(t, request) == do_process(t, request, "put", "put")

patch(t, request) == do_process(t, request, "patch", "patch")

delete(t, request) == do_process(t, request, "delete", "delete")

\* do_process called by a subclass with a typer of its own
do_process_call(t, request, typer) == do_process(t, request, typer, "")

\* a do_process that registers the host without keeping it in the settings
do_process_host_forget(t) ==
    /\ pc[t] = "dp_host"
    /\ IF settings.HALO_HOST = None /\ fr[t].request.HTTP_HOST # None
       THEN /\ UNCHANGED settings
            /\ reg' = [reg EXCEPT !.calls = @ + 1]
            /\ fr' = [fr EXCEPT ![t].region = AWS_REGION,
                                ![t].path = AppParamPath,
                                ![t].value = AppParamValue(fr[t].request.HTTP_HOST),
                                ![t].host = fr[t].request.HTTP_HOST]
            /\ pc' = [pc EXCEPT ![t] = "sc_loads"]
       ELSE /\ pc' = [pc EXCEPT ![t] = "dp_process"]
            /\ UNCHANGED <<settings, reg, fr>>
    /\ UNCHANGED <<clock, ticks, client, nclient, acc>>

\* lines 77-80: the first request that carries a host registers the service:
\* line 78 sets settings.HALO_HOST, line 80 calls set_app_param_config
do_process_host(t) ==
    /\ pc[t] = "dp_host"
    /\ IF settings.HALO_HOST = None /\ fr[t].request.HTTP_HOST # None
       THEN /\ settings' = [settings EXCEPT !.HALO_HOST = fr[t].request.HTTP_HOST]
            /\ reg' = [reg EXCEPT !.calls = @ + 1]
            /\ fr' = [fr EXCEPT ![t].region = AWS_REGION,
                                ![t].path = AppParamPath,
                                ![t].value = AppParamValue(fr[t].request.HTTP_HOST),
                                ![t].host = fr[t].request.HTTP_HOST]
            /\ pc' = [pc EXCEPT ![t] = "sc_loads"]
       ELSE /\ pc' = [pc EXCEPT ![t] = "dp_process"]
            /\ UNCHANGED <<settings, reg, fr>>
    /\ UNCHANGED <<clock, ticks, client, nclient, acc>>

\* line 80 returns: do_process drops what set_app_param_config returned
\* (False when the value was not JSON or put_parameter raised) and goes on
do_process_registered(t) ==
    /\ pc[t] = "dp_registered"
    /\ reg' = [reg EXCEPT !.failed = IF fr[t].putOk THEN @ ELSE @ + 1]
    /\ pc' = [pc EXCEPT ![t] = "dp_process"]
    /\ UNCHANGED <<settings, clock, ticks, client, nclient, acc, fr>>

\* line 87 and process, lines 240-255: the verb's hook is called, or the
\* text of line 255 is returned
process(t) ==
    /\ pc[t] = "dp_process"
    /\ IF Route(fr[t].typer) # ""
       THEN /\ fr' = [fr EXCEPT ![t].hooks = @ \cup {Route(fr[t].typer)}]
            /\ pc' = [pc EXCEPT ![t] = "dp_hook"]
       ELSE /\ fr' = [fr EXCEPT ![t].result =
                         HttpResponse(TextBody(<<"this is a ", fr[t].typer, " on ",
                                                 get_view_name>>), HTTP_200_OK)]
            /\ pc' = [pc EXCEPT ![t] = "dp_return"]
    /\ UNCHANGED <<reg, settings, clock, ticks, client, nclient, acc>>

\* the hook runs: it returns, and so does process, or it raises
process_hook(t, outcome) ==
    /\ pc[t] = "dp_hook"
    /\ fr' = [fr EXCEPT ![t].result = IF outcome.exc # NoExc THEN NoResponse
                                      ELSE IF outcome.by = "subclass" THEN SubclassResponse
                                      ELSE HookResponse(Route(fr[t].typer)),
                        ![t].exc = outcome.exc]
    /\ pc' = [pc EXCEPT ![t] = IF outcome.exc = NoExc THEN "dp_return" ELSE "dp_except"]
    /\ UNCHANGED <<reg, settings, clock, ticks, client, nclient, acc>>

\* lines 88-92 and the finally clause: return ret
do_process_return(t) ==
    /\ pc[t] = "dp_return"
    /\ fr' = [fr EXCEPT ![t].response = fr[t].result, ![t].ret = Return(NoVal)]
    /\ pc' = [pc EXCEPT ![t] = "done"]
    /\ UNCHANGED <<reg, settings, clock, ticks, client, nclient, acc>>

\* lines 94-159: the except clause that matches sets error_message, the
\* finally clause runs, and lines 157-159 answer; what no clause matches
\* leaves do_process after the finally clause
do_process_except(t) ==
    /\ pc[t] = "dp_except"
    /\ IF Caught(fr[t].exc.cls)
       THEN LET error_message == fr[t].exc.str
            IN fr' = [fr EXCEPT
                         ![t].error_message = error_message,
                         ![t].response =
                             IF settings.FRONT_WEB
                             THEN redirect(<<"/">> \o StrInt(HTTP_400_BAD_REQUEST))
                             ELSE HttpResponse(ErrorBody(error_message), HTTP_400_BAD_REQUEST),
                         ![t].ret = Return(NoVal)]
       ELSE fr' = [fr EXCEPT ![t].ret = Raise(fr[t].exc.cls)]
    /\ pc' = [pc EXCEPT ![t] = "done"]
    /\ UNCHANGED <<reg, settings, clock, ticks, client, nclient, acc>>

\* ---------------------------------------------------------- specifications
\* an invocation begins
Begin(t) ==
    \/ \E r \in Regions : get_config(t, r)
    \/ \E r \in Regions : get_app_config(t, r)
    \/ \E c \in CallerConfigs, e \in Expiries, r \in Regions : load_cache_call(t, c, e, r)
    \/ \E k \in Keys : get_param(t, k)
    \/ \E r \in Regions, k \in WriteKeys, v \in WriteValues : set_param_config(t, r, k, v)
    \/ \E r \in Regions, k \in WriteKeys, v \in WriteValues :
          set_config(t, r, Append(short_config_path, k), v)
    \/ \E r \in Regions, h \in Hosts : set_app_param_config(t, r, h)

\* an invocation takes its next step
Step(t) ==
    \/ get_client_check(t)
    \/ get_client_create(t)
    \/ get_client_return(t)
    \/ \E r \in FetchResults : load_config_fetch(t, r)
    \/ get_cache_build(t)
    \/ get_param_check(t)
    \/ get_param_in(t)
    \/ get_param_item(t)
    \/ get_param_in2(t)
    \/ set_config_loads(t)
    \/ \E o \in Outcomes : set_config_put(t, o)
    \/ Finish(t)

Environment == \E d \in TickSteps : Tick(d)

\* single-threaded: invocation 1 alone makes calls, each begun when the one
\* before has returned, while the clock moves freely
Next ==
    \/ Begin(1)
    \/ Step(1)
    \/ Environment

Spec == Init /\ [][Next]_vars

\* load_config as a function of the answer: get_config has the client and
\* is about to call the source, whose answer, should the call succeed, is
\* any list of parameters
InitLoad ==
    /\ clock = 0
    /\ ticks = 0
    /\ client = 1
    /\ nclient = 1
    /\ acc = NoAcc
    /\ settings = [HALO_HOST |-> None, FRONT_WEB |-> FALSE]
    /\ reg = NoReg
    /\ pc = [t \in Threads |-> IF t = 1 THEN "lc_fetch" ELSE "idle"]
    /\ \E resp \in Responses :
          fr = [t \in Threads |->
                   IF t = 1
                   THEN [Frame0 EXCEPT !.op = "get_config", !.region = "us-east-1",
                                       !.path = full_config_path, !.handle = 1,
                                       !.resp = resp]
                   ELSE Frame0]

\* the call is made and load_config returns; get_cache builds the snapshot
\* and get_config returns the accessor
NextLoad ==
    \/ \E o \in Outcomes : load_config_fetch(1, FetchResult(o, fr[1].resp))
    \/ get_cache_build(1)
    \/ Finish(1)

SpecLoad == InitLoad /\ [][NextLoad]_vars

\* the view: a process starts with HALO_HOST set or not and with FRONT_WEB
\* on or off
InitView ==
    /\ clock = 0
    /\ ticks = 0
    /\ client = NoClient
    /\ nclient = 0
    /\ acc = NoAcc
    /\ settings \in [HALO_HOST : {None, <<"h">>}, FRONT_WEB : BOOLEAN]
    /\ reg = NoReg
    /\ pc = [t \in Threads |-> "idle"]
    /\ fr = [t \in Threads |-> Frame0]

\* a request arrives
BeginView(t) ==
    \/ \E r \in Requests : get(t, r)
    \/ \E r \in Requests : post(t, r)
    \/ \E r \in Requests : put(t, r)
    \/ \E r \in Requests : patch(t, r)
    \/ \E r \in Requests : delete(t, r)
    \/ \E r \in Requests, v \in Typers : do_process_call(t, r, v)

\* the request takes its next step
StepView(t) ==
    \/ do_process_host(t)
    \/ do_process_registered(t)
    \/ set_config_loads(t)
    \/ get_client_check(t)
    \/ get_client_create(t)
    \/ get_client_return(t)
    \/ \E o \in Outcomes : set_config_put(t, o)
    \/ process(t)
    \/ \E o \in HookOutcomes : process_hook(t, o)
    \/ do_process_return(t)
    \/ do_process_except(t)
    \/ Finish(t)

\* requests served one after the other by one process
NextView ==
    \/ BeginView(1)
    \/ StepView(1)

SpecView == InitView /\ [][NextView]_vars

\* regions handed to the writes of concurrent invocations
WriteRegions == {"us-east-1", "eu-west-1"}

\* how the source answers a concurrent refresh: it fails, or it answers one
\* parameter
ConcurrentFetchResults ==
    {FetchResult("ClientError", <<>>)}
        \cup {FetchResult("ok", <<p>>) : p \in [Name : ParamNames, Value : {ObjK1}]}

\* an accessor built by load_cache over a 100 ms snapshot is shared by the
\* invocations; no call to the store has been made yet
InitConcurrent ==
    /\ clock = 0
    /\ ticks = 0
    /\ client = NoClient
    /\ nclient = 0
    /\ acc = MyConfig(load_cache(Dict("a" :> ((<<"k">>) :> <<"1">>)), 100, 0).cache,
                      full_config_path, "us-east-1")
    /\ settings = [HALO_HOST |-> None, FRONT_WEB |-> FALSE]
    /\ reg = NoReg
    /\ pc = [t \in Threads |-> "idle"]
    /\ fr = [t \in Threads |-> Frame0]

\* an invocation reads a parameter or writes one
BeginConcurrent(t) ==
    \/ get_param(t, "a")
    \/ \E r \in WriteRegions : set_param_config(t, r, "a", ObjK1)

\* an invocation takes its next step
StepConcurrent(t) ==
    \/ get_client_check(t)
    \/ get_client_create(t)
    \/ get_client_return(t)
    \/ \E r \in ConcurrentFetchResults : load_config_fetch(t, r)
    \/ get_cache_build(t)
    \/ get_param_check(t)
    \/ get_param_in(t)
    \/ get_param_item(t)
    \/ get_param_in2(t)
    \/ set_config_loads(t)
    \/ \E o \in Outcomes : set_config_put(t, o)
    \/ Finish(t)

\* the invocations of one process interleave freely, step by step, with no
\* lock between them, while the clock moves
NextConcurrent ==
    \/ \E t \in Threads : BeginConcurrent(t)
    \/ \E t \in Threads : StepConcurrent(t)
    \/ Tick(DEFAULT_EXPIRY)

SpecConcurrent == InitConcurrent /\ [][NextConcurrent]_vars

\* ------------------------------------------------------------------ claims
GetParamDone(t) == pc[t] = "done" /\ fr[t].op = "get_param"

\* the call began while its clock reading was within the snapshot's lifetime
BeganValid(t) == fr[t].now <= fr[t].pre.expiration

SetOps == {"set_config", "set_param_config", "set_app_param_config"}

\* C1: a get_param(k) that begins at a time <= the snapshot's expiration
\* (equality included) with k in the snapshot returns the value the
\* snapshot holds for k.
C1_ValidReadReturnsSnapshotValue ==
    \A t \in Threads :
        (GetParamDone(t) /\ BeganValid(t) /\ Contains(fr[t].pre.items, fr[t].key))
            => /\ fr[t].ret.kind = "return"
               /\ fr[t].ret.val = GetItem(fr[t].pre.items, fr[t].key)

\* a read at exactly the expiration instant has returned a section
C1_Witness ==
    \E t \in Threads :
        /\ GetParamDone(t)
        /\ fr[t].now = fr[t].pre.expiration
        /\ fr[t].key = "a"
        /\ fr[t].ret.kind = "return"
        /\ fr[t].ret.val.opts # EmptyOpts

\* C2: a get_param(k) that begins at a time <= the snapshot's expiration with
\* k absent from the snapshot raises CacheKeyError, makes no call to the
\* source and leaves the accessor's snapshot as it was.
C2_ValidReadOfAbsentKey ==
    \A t \in Threads :
        (GetParamDone(t) /\ BeganValid(t) /\ ~Contains(fr[t].pre.items, fr[t].key))
            => /\ fr[t].ret.kind = "raise"
               /\ fr[t].ret.exc = "CacheKeyError"
               /\ fr[t].nget = 0
               /\ acc.cache = fr[t].pre

\* a read of an absent key at exactly the expiration instant has failed
C2_Witness ==
    \E t \in Threads :
        /\ GetParamDone(t)
        /\ fr[t].now = fr[t].pre.expiration
        /\ ~Contains(fr[t].pre.items, fr[t].key)
        /\ fr[t].ret.kind = "raise"

\* C3: single-threaded, a get_param that begins at a time greater than the
\* snapshot's expiration makes exactly one get_parameters_by_path call, and
\* the accessor's expiration afterwards is strictly greater than before.
C3_ExpiredReadRefreshesOnce ==
    \A t \in Threads :
        (GetParamDone(t) /\ ~BeganValid(t))
            => /\ fr[t].nget = 1
               /\ acc.cache.expiration > fr[t].pre.expiration

\* an expired read has replaced a snapshot that was itself built by default
C3_Witness ==
    \E t \in Threads :
        /\ GetParamDone(t)
        /\ ~BeganValid(t)
        /\ fr[t].pre.expiryMs = DEFAULT_EXPIRY
        /\ fr[t].nget = 1

\* C4: a get_param(k) that begins after the expiration returns the refreshed
\* snapshot's value of k when it has k, and raises CacheExpireError (never
\* CacheKeyError) when it has not.
C4_ExpiredReadOutcome ==
    \A t \in Threads :
        (GetParamDone(t) /\ ~BeganValid(t))
            => IF Contains(acc.cache.items, fr[t].key)
               THEN /\ fr[t].ret.kind = "return"
                    /\ fr[t].ret.val = GetItem(acc.cache.items, fr[t].key)
               ELSE /\ fr[t].ret.kind = "raise"
                    /\ fr[t].ret.exc = "CacheExpireError"

\* an expired read of a key the old snapshot had and the new one has not
C4_Witness ==
    \E t \in Threads :
        /\ GetParamDone(t)
        /\ ~BeganValid(t)
        /\ Contains(fr[t].pre.items, fr[t].key)
        /\ ~Contains(acc.cache.items, fr[t].key)
        /\ fr[t].ret.exc = "CacheExpireError"

\* C5: load_cache with an expiry duration <= 0 (zero included) raises
\* HaloError whatever the items, and no snapshot comes of it.
C5_NonPositiveExpiryRejected ==
    \A t \in Threads :
        (pc[t] = "done" /\ fr[t].op = "load_cache" /\ fr[t].expiryMs <= 0)
            => /\ fr[t].ret.kind = "raise"
               /\ fr[t].ret.exc = "HaloError"
               /\ acc = NoAcc

\* load_cache was handed a non-empty dict and the duration zero
C5_Witness ==
    \E t \in Threads :
        /\ pc[t] = "done"
        /\ fr[t].op = "load_cache"
        /\ fr[t].expiryMs = 0
        /\ DOMAIN fr[t].config.sections # {}
        /\ fr[t].ret.kind = "raise"

\* items with no entry at all
IsEmpty(items) == DOMAIN items.sections = {} /\ DOMAIN items.defaults = {}

\* C6: load_cache raises the configuration error whenever items is empty or
\* absent, so that no accessor ever holds a snapshot with empty items, a
\* refresh whose fetch came back empty included.
C6_EmptyItemsRejected ==
    /\ \A t \in Threads :
          (pc[t] = "done" /\ fr[t].op = "load_cache" /\ IsEmpty(fr[t].config))
              => fr[t].ret.kind = "raise"
    /\ acc.exists => ~IsEmpty(acc.cache.items)

\* the accessor's snapshot was built at the clock value built with a
\* positive duration, and expires that long after
C7_Inv ==
    acc.exists =>
        /\ acc.cache.expiryMs \in Nat \ {0}
        /\ acc.cache.expiration = acc.cache.built + acc.cache.expiryMs

\* a step that changes the accessor's snapshot puts a snapshot built at this
\* very step in its place, with the default duration when get_cache built it
C7_Step ==
    (acc'.cache # acc.cache) =>
        /\ acc'.cache.built = clock
        /\ acc'.cache.expiration = clock + acc'.cache.expiryMs
        /\ \A t \in Threads :
              pc[t] = "gcache" => acc'.cache.expiryMs = DEFAULT_EXPIRY

\* C7: every snapshot an accessor holds has expiration = clock at its build +
\* its expiry duration, a positive integer (180000 when not given), and its
\* expiration never changes after the build: the accessor's expiration
\* changes only by a newly built snapshot taking the place of the old one.
C7_ExpirationIsBuildTimePlusExpiry == [] C7_Inv /\ [][C7_Step]_vars

\* the clock has moved on since a refresh built the snapshot held
C7_Witness ==
    /\ acc.exists
    /\ acc.cache.built > 0
    /\ clock > acc.cache.built
    /\ acc.cache.expiryMs = DEFAULT_EXPIRY

\* C8: when the call to the source fails or a value of its answer fails JSON
\* parsing, load_config raises nothing and returns an EMPTY configuration,
\* also when earlier parameters of the same answer were parsed.
C8_FailedLoadIsEmpty ==
    \A t \in Threads :
        (pc[t] = "gcache" /\ fr[t].failed) => IsEmpty(fr[t].config)

UrlJson(url) ==
    <<"{", QUOTE, "u", "r", "l", QUOTE, ":", QUOTE>> \o url \o <<QUOTE, "}">>

\* C10: for every non-empty host h, set_app_param_config(region, h) issues
\* one write of exactly {"url":"https://<h>/<env>"} at
\* /<app>/<type>/service/<function name>; for a falsy host the value carries
\* the host itself in place of the URL.
C10_AppParamWrite ==
    \A t \in Threads :
        (pc[t] = "done" /\ fr[t].op = "set_app_param_config")
            => /\ fr[t].nput = 1
               /\ fr[t].putName = <<"", app_name, type, "service", app_config_path>>
               /\ fr[t].putValue =
                     IF fr[t].host # None /\ Len(fr[t].host) > 0
                     THEN UrlJson(<<"h", "t", "t", "p", "s", ":", "/", "/">> \o fr[t].host
                                  \o <<"/", "p", "r", "o", "d">>)
                     ELSE IF fr[t].host = None THEN UrlJson(<<"N", "o", "n", "e">>)
                     ELSE UrlJson(<<>>)

ViewDone(t) == pc[t] = "done" /\ fr[t].op = "do_process"

\* the answer of do_process to an exception with the text message
ErrorAnswer(message) ==
    IF settings.FRONT_WEB
    THEN [kind |-> "redirect", status |-> 302, body |-> TextBody(<<>>),
          location |-> <<"/", "4", "0", "0">>]
    ELSE [kind |-> "response", status |-> 400, body |-> ErrorBody(message),
          location |-> <<>>]

\* do_process has answered the exception its handler raised, none escaped
ErrorAnswered(t) ==
    /\ fr[t].ret.kind = "return"
    /\ fr[t].response = ErrorAnswer(fr[t].exc.str)

\* C11 as stated: whatever exception the handler raises, none escapes
\* do_process, which answers with status 400 and {"error": message}, or with
\* a redirect to /400 when FRONT_WEB is set; when the handler raises nothing
\* its own return value is returned.
C11_AnyExceptionAnswered ==
    \A t \in Threads :
        ViewDone(t) =>
            IF fr[t].exc # NoExc THEN ErrorAnswered(t)
            ELSE fr[t].ret.kind = "return" /\ fr[t].response = fr[t].result

\* C11: an exception of the handler that derives from Exception, or a
\* KeyboardInterrupt, does not escape do_process, which answers with status
\* 400 and {"error": message}, or with a redirect to /400 when FRONT_WEB is
\* set; any other exception (SystemExit, GeneratorExit) leaves do_process;
\* when the handler raises nothing its own return value is returned.
C11_ExceptionAnswered ==
    \A t \in Threads :
        ViewDone(t) =>
            IF fr[t].exc = NoExc
            THEN fr[t].ret.kind = "return" /\ fr[t].response = fr[t].result
            ELSE IF "Exception" \in Bases(fr[t].exc.cls) \/ fr[t].exc.cls = "KeyboardInterrupt"
                 THEN ErrorAnswered(t)
                 ELSE fr[t].ret = Raise(fr[t].exc.cls) /\ fr[t].response = NoResponse

\* a hook raised a KeyError, which only the last except clause matches, and
\* do_process answered with the error body
C11_Witness ==
    \E t \in Threads :
        /\ ViewDone(t)
        /\ fr[t].exc = Exc("KeyError", <<"boom">>)
        /\ ~settings.FRONT_WEB
        /\ fr[t].response.status = 400
        /\ fr[t].response.body.error = <<"boom">>

\* the hook of a verb
HookOf(verb) ==
    CASE verb = "get" -> "process_get"
      [] verb = "post" -> "process_post"
      [] verb = "put" -> "process_put"
      [] verb = "patch" -> "process_patch"
      [] verb = "delete" -> "process_delete"

\* C18: each verb method calls do_process once with its own verb; process
\* calls the hook of that verb and no other; a typer that is none of the
\* five verbs reaches no hook and is answered with the text
\* 'this is a <typer> on <view name>'.
C18_VerbRouting ==
    \A t \in Threads :
        fr[t].op = "do_process" =>
            /\ fr[t].ndo = 1
            /\ fr[t].entry # "" => fr[t].typer = fr[t].entry
            /\ IF fr[t].typer \in {"get", "post", "put", "patch", "delete"}
               THEN /\ fr[t].hooks \subseteq {HookOf(fr[t].typer)}
                    /\ pc[t] \in {"dp_hook", "dp_return", "dp_except", "done"}
                          => fr[t].hooks = {HookOf(fr[t].typer)}
               ELSE /\ fr[t].hooks = {}
                    /\ pc[t] # "dp_hook"
                    /\ pc[t] = "done"
                          => /\ fr[t].ret.kind = "return"
                             /\ fr[t].response.status = 200
                             /\ fr[t].response.body =
                                    TextBody(<<"this is a ", fr[t].typer, " on ", "view">>)

\* the patch method has been answered by the hook process_patch
C18_Witness ==
    \E t \in Threads :
        /\ ViewDone(t)
        /\ fr[t].entry = "patch"
        /\ fr[t].hooks = {"process_patch"}
        /\ fr[t].response.body = TextBody(<<"this is process ", "patch", " on ", "view">>)

\* an invocation that found the snapshot expired is past its refresh only
\* with one call to the source of its own
C12_Inv ==
    \A t \in Threads :
        (fr[t].op = "get_param" /\ fr[t].seen # NoCache
                /\ pc[t] \in {"gp_in2", "gp_item2", "done"})
            => fr[t].nget = 1

\* the refresh of an invocation puts the snapshot of its own fetch in the
\* accessor, whatever another invocation has put there before
C12_Step ==
    \A t \in Threads :
        (fr[t].op = "get_param" /\ pc[t] = "gcache" /\ pc'[t] = "gp_in2")
            => /\ acc'.cache.items = fr[t].config
               /\ acc'.cache.built = clock

\* C12: with no lock between two invocations sharing one accessor, each
\* invocation that finds the snapshot expired makes a call to the source of
\* its own, also when the other has found the same snapshot expired (no
\* single-flight), and the accessor holds the snapshot of the refresh that
\* assigned last.
C12_NoSingleFlight == [] C12_Inv /\ [][C12_Step]_vars

\* both invocations have found the same snapshot expired and each has made
\* its call to the source: two calls for one expiry
C12_Witness ==
    /\ \A t \in Threads : GetParamDone(t) /\ fr[t].nget = 1
    /\ fr[1].seen = fr[2].seen
    /\ fr[1].seen.expiryMs = 100
    /\ acc.cache # fr[1].seen

\* C13: over any operations of one process that reach get_client,
\* concurrent ones included, the client is created at most once, every
\* get_client call returns that one handle, and the global is never reset.
C13_ClientCreatedOnce ==
    /\ nclient <= 1
    /\ nclient = 1 => client = 1
    /\ \A t \in Threads : fr[t].handle \in {NoClient, 1}

\* the final path segment of a parameter's name
Segment(p) == p.Name[Len(p.Name)]

\* the options a parameter's value stands for in a configuration: the
\* members of the parsed object, names in lower case and values as texts
OptionsOf(p) ==
    LET m == json_loads(p.Value).v.m
    IN [o \in {optionxform(m[i][1]) : i \in 1..Len(m)} |->
           PyStr(m[CHOOSE i \in 1..Len(m) : optionxform(m[i][1]) = o][2])]

\* the positions of the answer whose name ends in segment s
Carrying(resp, s) == {n \in 1..Len(resp) : Segment(resp[n]) = s}

Last(S) == CHOOSE x \in S : \A y \in S : y <= x

\* C14 as stated: the mapping built from an answer has one entry per distinct
\* final segment, and the entry of segment s equals the parsed value of the
\* LAST parameter whose name ends in s, nothing of an earlier one surviving.
C14_LastEntryWins ==
    \A t \in Threads :
        (pc[t] = "gcache" /\ ~fr[t].failed)
            => LET resp == fr[t].resp
                   sections == fr[t].config.sections
               IN /\ DOMAIN sections = {Segment(resp[n]) : n \in 1..Len(resp)}
                  /\ \A s \in DOMAIN sections :
                        sections[s] = OptionsOf(resp[Last(Carrying(resp, s))])

\* C14: the mapping built from an answer has one entry per distinct final
\* segment, and the entry of segment s holds every option carried by some
\* parameter whose name ends in s, with the value of the LAST such parameter
\* that carries the option: options of earlier parameters survive unless a
\* later one carries them too.
C14_LastOptionWins ==
    \A t \in Threads :
        (pc[t] = "gcache" /\ ~fr[t].failed)
            => LET resp == fr[t].resp
                   sections == fr[t].config.sections
               IN /\ DOMAIN sections = {Segment(resp[n]) : n \in 1..Len(resp)}
                  /\ \A s \in DOMAIN sections :
                        /\ DOMAIN sections[s] =
                              UNION {DOMAIN OptionsOf(resp[n]) : n \in Carrying(resp, s)}
                        /\ \A o \in DOMAIN sections[s] :
                              sections[s][o] =
                                 OptionsOf(resp[Last({n \in Carrying(resp, s) :
                                                        o \in DOMAIN OptionsOf(resp[n])})])[o]

\* two parameters of one segment: the later has overwritten option k of the
\* earlier, whose option j is still there
C14_Witness ==
    \E t \in Threads :
        /\ pc[t] = "gcache"
        /\ ~fr[t].failed
        /\ Len(fr[t].resp) = 2
        /\ Segment(fr[t].resp[1]) = "a"
        /\ Segment(fr[t].resp[2]) = "a"
        /\ fr[t].resp[1].Value = ObjK2J3
        /\ fr[t].resp[2].Value = ObjK1
        /\ fr[t].config.sections["a"] = (<<"k">> :> <<"1">>) @@ (<<"j">> :> <<"3">>)

\* a refresh inside get_param calls the source with the accessor's own path
\* and region_name
C15_Inv ==
    \A t \in Threads :
        (fr[t].op = "get_param" /\ pc[t] \in {"gc_check", "gc_create", "gc_return", "lc_fetch"})
            => /\ fr[t].path = acc.path
               /\ fr[t].region = acc.region_name

\* a step leaves the accessor's path and region_name alone, and changes its
\* snapshot only by putting the whole result of the fetch just made, with
\* a new expiration, in its place
C15_Step ==
    acc.exists =>
        /\ acc'.exists
        /\ acc'.path = acc.path
        /\ acc'.region_name = acc.region_name
        /\ (acc'.cache # acc.cache) =>
              \E t \in Threads :
                  /\ pc[t] = "gcache"
                  /\ fr[t].op = "get_param"
                  /\ acc'.cache.items = fr[t].config
                  /\ acc'.cache.expiration = clock + DEFAULT_EXPIRY

\* C15: the accessor's snapshot changes only by a refresh, which puts the
\* result of one single fetch in its place as a whole (entries and expiration
\* of every key, never a mixture of two fetches); get_param never changes the
\* accessor's path or region_name, and every refresh passes them to the
\* source as they are.
C15_SnapshotReplacedWholesale == [] C15_Inv /\ [][C15_Step]_vars

\* a read of key a has refreshed a snapshot holding a into one holding b alone
C15_Witness ==
    \E t \in Threads :
        /\ GetParamDone(t)
        /\ fr[t].nget = 1
        /\ fr[t].key = "a"
        /\ DOMAIN fr[t].pre.items.sections = {"a"}
        /\ DOMAIN acc.cache.items.sections = {"b"}

\* C16: the snapshot an accessor holds after a refresh inside get_param
\* expires 180000 ms after the clock value of the refresh, whatever duration
\* the replaced snapshot was built with.
C16_RefreshUsesDefaultExpiry ==
    \A t \in Threads :
        (GetParamDone(t) /\ fr[t].nget > 0)
            => /\ acc.cache.expiration = acc.cache.built + 180000
               /\ fr[t].now <= acc.cache.built
               /\ acc.cache.built <= clock

\* the first read after the expiry of a 100 ms snapshot has refreshed it
C16_Witness ==
    \E t \in Threads :
        /\ GetParamDone(t)
        /\ fr[t].nget = 1
        /\ fr[t].pre.expiryMs = 100
        /\ acc.cache.expiration = fr[t].now + 180000

\* C17: set_config validates the value as JSON before the write: a value that
\* does not parse leads to no put_parameter call and to the result False;
\* a value that parses leads to exactly one put_parameter call, at the path
\* given, with Type 'String' and Overwrite true.
C17_ValidationBeforeWrite ==
    \A t \in Threads :
        /\ (fr[t].op \in SetOps /\ ~json_loads(fr[t].value).ok)
              => /\ fr[t].nput = 0
                 /\ pc[t] \in {"sc_loads", "done"}
                 /\ pc[t] = "done" => fr[t].ret = ReturnBool(FALSE)
        /\ (fr[t].op \in SetOps /\ pc[t] = "done" /\ json_loads(fr[t].value).ok)
              => /\ fr[t].nput = 1
                 /\ fr[t].putName = fr[t].path
                 /\ fr[t].putValue = fr[t].value
                 /\ fr[t].putType = "String"
                 /\ fr[t].putOverwrite

\* a write of a text that is not JSON has returned False without a call
C17_Witness ==
    \E t \in Threads :
        /\ pc[t] = "done"
        /\ fr[t].op = "set_config"
        /\ fr[t].value = BadJson
        /\ fr[t].nput = 0
        /\ fr[t].ret = ReturnBool(FALSE)

\* C19: a get_param that returns a value returns the value of a snapshot
\* whose expiration is >= the clock value the call read at its start; when
\* the refreshed snapshot has not the key the call raises, the replaced
\* snapshot's value is not served in its place.
C19_NoValueFromExpiredSnapshot ==
    \A t \in Threads :
        (GetParamDone(t) /\ fr[t].ret.kind = "return")
            => /\ fr[t].now <= acc.cache.expiration
               /\ Contains(acc.cache.items, fr[t].key)
               /\ fr[t].ret.val = GetItem(acc.cache.items, fr[t].key)

\* a refresh came back empty for a key the expired snapshot had
C19_Witness ==
    \E t \in Threads :
        /\ GetParamDone(t)
        /\ ~BeganValid(t)
        /\ Contains(fr[t].pre.items, fr[t].key)
        /\ IsEmpty(acc.cache.items)
        /\ fr[t].ret.kind = "raise"

\* the snapshot get_cache builds from an empty mapping
EmptySnapshot(cache) == cache.items = NewConfigParser /\ cache.expiryMs = DEFAULT_EXPIRY

\* a refresh inside get_param that fetched an empty mapping puts an empty
\* snapshot expiring 180000 ms later in the place of the one held
C20_Step ==
    \A t \in Threads :
        (pc[t] = "gcache" /\ fr[t].op = "get_param" /\ IsEmpty(fr[t].config)
                /\ pc'[t] # "gcache")
            => /\ EmptySnapshot(acc'.cache)
               /\ acc'.cache.expiration = clock + 180000

\* get_param(key) over an empty snapshot built by get_cache: no call to the
\* source and CacheKeyError up to the expiration, one call after it
C20_Read(t, keys) ==
    (GetParamDone(t) /\ EmptySnapshot(fr[t].pre) /\ fr[t].key \in keys)
        => IF BeganValid(t)
           THEN /\ fr[t].nget = 0
                /\ fr[t].ret = Raise("CacheKeyError")
                /\ acc.cache = fr[t].pre
           ELSE fr[t].nget = 1

\* C20 as stated: after a refresh that yields an empty mapping the accessor
\* holds an empty snapshot valid for 180000 ms, and every get_param for ANY
\* key before its expiration fails with CacheKeyError without a call to the
\* source; the next call to the source is made by the first get_param after
\* that expiration.
C20_FailedRefreshCached_Any == \A t \in Threads : C20_Read(t, Keys)

\* C20: after a refresh that yields an empty mapping the accessor holds an
\* empty snapshot valid for 180000 ms, and every get_param for a key other
\* than 'DEFAULT' before its expiration fails with CacheKeyError without a
\* call to the source; the next call to the source is made by the first
\* get_param after that expiration.
C20_FailedRefreshCached ==
    [](\A t \in Threads : C20_Read(t, Keys \ {DEFAULTSECT})) /\ [][C20_Step]_vars

\* a read later than the empty refresh and within its window has failed
C20_Witness ==
    \E t \in Threads :
        /\ GetParamDone(t)
        /\ EmptySnapshot(fr[t].pre)
        /\ fr[t].pre.built > 0
        /\ fr[t].now > fr[t].pre.built
        /\ BeganValid(t)
        /\ fr[t].key = "a"
        /\ fr[t].ret = Raise("CacheKeyError")


\* where an invocation stands while the set_app_param_config call of
\* viewsx.py line 80 is running
Registering(t) ==
    /\ fr[t].op = "do_process"
    /\ pc[t] \in {"sc_loads", "gc_check", "gc_create", "gc_return", "sc_put",
                  "dp_registered"}

C21_Inv ==
    /\ reg.calls <= 1
    /\ reg.failed <= reg.calls
    /\ reg.calls = 1 => settings.HALO_HOST # None
    /\ \A t \in Threads :
          /\ Registering(t) =>
                /\ fr[t].request.HTTP_HOST # None
                /\ settings.HALO_HOST = fr[t].request.HTTP_HOST
          /\ fr[t].op = "do_process" /\ fr[t].request.HTTP_HOST = None =>
                /\ ~Registering(t)
                /\ fr[t].nput = 0

C21_Step ==
    /\ settings.HALO_HOST # None => settings'.HALO_HOST = settings.HALO_HOST
    /\ reg.calls >= 1 => reg'.calls = reg.calls
    /\ reg'.calls # reg.calls =>
          /\ settings.HALO_HOST = None
          /\ \E t \in Threads :
                /\ pc[t] = "dp_host"
                /\ fr[t].request.HTTP_HOST # None
                /\ settings'.HALO_HOST = fr[t].request.HTTP_HOST
                /\ Registering(t)'
    /\ \A t \in Threads :
          fr'[t].nput > fr[t].nput /\ fr[t].op = "do_process" =>
              /\ Registering(t)
              /\ reg.calls = 1

\* C21: requests served one after the other make do_process call
\* set_app_param_config at most once in a process: the call is made only
\* by a request that finds settings.HALO_HOST None and carries an HTTP_HOST
\* header, settings.HALO_HOST holds that header before the call starts and
\* never goes back to None, so no later request calls it again, whether
\* or not the call returned False; a request without the header makes no
\* call and no put_parameter
C21_RegisteredAtMostOnce == [] C21_Inv /\ [][C21_Step]_vars

\* the first request's registration returned False (its value was not
\* JSON), and a later request with another HTTP_HOST header has been
\* answered without any call or write
C21_Witness ==
    /\ reg = [calls |-> 1, failed |-> 1]
    /\ settings.HALO_HOST = <<QUOTE>>
    /\ pc[1] = "done"
    /\ fr[1].op = "do_process"
    /\ fr[1].request.HTTP_HOST = <<"a">>
    /\ fr[1].nput = 0
    /\ fr[1].response # NoResponse

====
